---- MODULE Spec2Model ----
(***************************************************************************)
(* ProcurementPDFExtractor (src/precurement_extractor.py): the hybrid      *)
(* extraction pipeline (pdfplumber first, Donut as the fallback), the      *)
(* keyword classifier, the regular-expression field extraction, the line   *)
(* item and turnover extraction, the eligibility rule and the final        *)
(* replacement of None by "null".                                          *)
(*                                                                         *)
(* Representation of Python values.  A str is a sequence of one-character  *)
(* strings.  None, True, False and the loaded model objects are            *)
(* one-element sequences holding a reserved symbol, so that they differ    *)
(* from every str and from each other.  A list is a sequence, a dict a     *)
(* record.  A float is kept exactly: a non-negative IEEE double is the     *)
(* sequence of the base-2^LimbBits digits of value * 2^(LimbBits *         *)
(* FracLimbs), most significant first.                                     *)
(***************************************************************************)
EXTENDS Integers, Sequences, FiniteSets, TLC

VARIABLES
    DONUT_AVAILABLE,   \* module flag, set once at import
    donut_model,       \* self.donut_model
    donut_processor,   \* self.donut_processor
    pc,                \* position inside extract_procurement_data
    pdf,               \* what the file system and pdfplumber answer for pdf_path
    plumber_data,      \* local of extract_procurement_data
    donut_data,        \* local of extract_procurement_data
    raw_text,          \* local of extract_procurement_data
    tables,            \* local of extract_procurement_data
    method_used,       \* local of extract_procurement_data
    output,            \* local of extract_procurement_data, returned at the end;
                       \* the value returned, where one method is applied on its own
    built,             \* history: output as it was before _clean_nulls
    loads,             \* history: completed loads of the Donut model
    hist               \* history: flags about the calls made so far

vars == <<DONUT_AVAILABLE, donut_model, donut_processor, pc, pdf, plumber_data,
          donut_data, raw_text, tables, method_used, output, built,
          loads, hist>>

(***************************************************************************)
(* Python values                                                           *)
(***************************************************************************)
None == <<"<None>">>
PyTrue == <<"<True>">>
PyFalse == <<"<False>">>
DonutModelObject == <<"<VisionEncoderDecoderModel>">>
DonutProcessorObject == <<"<DonutProcessor>">>
NotComputed == <<"<not computed>">>
EmptyStr == << >>
EmptyDict == [x \in {} |-> None]

Digits == {"0","1","2","3","4","5","6","7","8","9"}
Whitespace == {" ", "\t", "\n", "\r", "\f"}
Uppers == <<"A","B","C","D","E","F","G","H","I","J","K","L","M",
            "N","O","P","Q","R","S","T","U","V","W","X","Y","Z">>
Lowers == <<"a","b","c","d","e","f","g","h","i","j","k","l","m",
            "n","o","p","q","r","s","t","u","v","w","x","y","z">>
UpperSet == {Uppers[i] : i \in DOMAIN Uppers}
LowerSet == {Lowers[i] : i \in DOMAIN Lowers}
Letters == UpperSet \cup LowerSet

LowerOf == [c \in UpperSet |-> Lowers[CHOOSE i \in DOMAIN Uppers : Uppers[i] = c]]
UpperOf == [c \in LowerSet |-> Uppers[CHOOSE i \in DOMAIN Lowers : Lowers[i] = c]]
LowerChar(c) == IF c \in UpperSet THEN LowerOf[c] ELSE c
UpperChar(c) == IF c \in LowerSet THEN UpperOf[c] ELSE c

\* str.lower()
Lower(s) == [i \in DOMAIN s |-> LowerChar(s[i])]

\* needle in haystack
Contains(haystack, needle) ==
    \E i \in 1..(Len(haystack) - Len(needle) + 1) :
        SubSeq(haystack, i, i + Len(needle) - 1) = needle

\* str.strip()
LStrip(s) ==
    IF \A i \in DOMAIN s : s[i] \in Whitespace THEN EmptyStr
    ELSE SubSeq(s, CHOOSE i \in DOMAIN s :
                      /\ s[i] \notin Whitespace
                      /\ \A j \in 1..(i - 1) : s[j] \in Whitespace,
                Len(s))
RStrip(s) ==
    IF \A i \in DOMAIN s : s[i] \in Whitespace THEN EmptyStr
    ELSE SubSeq(s, 1, CHOOSE i \in DOMAIN s :
                         /\ s[i] \notin Whitespace
                         /\ \A j \in (i + 1)..Len(s) : s[j] \in Whitespace)
Strip(s) == RStrip(LStrip(s))

\* sep.join(parts)
RECURSIVE Join(_, _)
Join(sep, parts) ==
    IF Len(parts) = 0 THEN EmptyStr
    ELSE IF Len(parts) = 1 THEN parts[1]
    ELSE parts[1] \o sep \o Join(sep, Tail(parts))

(***************************************************************************)
(* The re module, for the constructs the patterns of the source use: a     *)
(* backtracking matcher that tries the alternatives in the order Python's  *)
(* does (greedy: one more repetition first; lazy: stop first; a | b: a     *)
(* first).                                                                 *)
(***************************************************************************)
Set(S) == [k |-> "set", s |-> S, neg |-> FALSE]
NotSet(S) == [k |-> "set", s |-> S, neg |-> TRUE]
Inf == -1
\* cls{min,max} and cls{min,max}? for one character class cls
Rep(cls, min, max) == [k |-> "rep", cls |-> cls, min |-> min, max |-> max, lazy |-> FALSE]
LazyRep(cls, min, max) == [k |-> "rep", cls |-> cls, min |-> min, max |-> max, lazy |-> TRUE]
\* (?:sub)?
Opt(sub) == [k |-> "opt", sub |-> sub]
Open(n) == [k |-> "open", n |-> n]
Close(n) == [k |-> "close", n |-> n]
Bol == [k |-> "bol"]
Lit(s) == <<[k |-> "lit", s |-> s]>>
Star(S) == Rep(Set(S), 0, Inf)
Plus(S) == Rep(Set(S), 1, Inf)

NoMatch == [ok |-> FALSE]
NoGroups == [n \in 1..3 |-> <<0, 0>>]

CharIn(c, nd, ic) ==
    LET hit == \/ c \in nd.s
               \/ ic /\ (LowerChar(c) \in nd.s \/ UpperChar(c) \in nd.s)
    IN hit # nd.neg
CharEq(c, d, ic) == c = d \/ (ic /\ LowerChar(c) = LowerChar(d))

\* how many characters from position i on are in the class, at most max
RunLength(text, ic, cls, i, max) ==
    LET stops == {j \in i..Len(text) : ~CharIn(text[j], cls, ic)}
        run == IF stops = {} THEN Len(text) - i + 1
               ELSE (CHOOSE j \in stops : \A m \in stops : j <= m) - i
    IN IF max # Inf /\ run > max THEN max ELSE run

\* the first attempt that succeeded, of the attempts in the order the
\* backtracking makes them
FirstOk(results) == Head(SelectSeq(results, LAMBDA r : r.ok) \o <<NoMatch>>)

\* where the matcher stands: the nodes still to match, the position in the
\* text and the groups captured so far
Config(nodes, i, cap) == [nodes |-> nodes, i |-> i, cap |-> cap]

\* cls{min,max} followed by rest, run being the length of the run of cls at i:
\* the greedy one tries the longest count first, the lazy one the shortest
RepAttempts(nd, rest, i, cap, run) ==
    [k \in 1..(run - nd.min + 1) |->
        Config(rest, i + (IF nd.lazy THEN nd.min + k - 1 ELSE run - k + 1), cap)]

\* the ways to match node nd at position i and go on with rest, in the order
\* Python's matcher tries them
Attempts(text, ic, nd, rest, i, cap) ==
    CASE nd.k = "set" ->
           IF i <= Len(text) /\ CharIn(text[i], nd, ic)
           THEN <<Config(rest, i + 1, cap)>> ELSE << >>
      [] nd.k = "lit" ->
           IF /\ i + Len(nd.s) - 1 <= Len(text)
              /\ \A j \in DOMAIN nd.s : CharEq(text[i + j - 1], nd.s[j], ic)
           THEN <<Config(rest, i + Len(nd.s), cap)>> ELSE << >>
      [] nd.k = "bol" ->
           IF i = 1 THEN <<Config(rest, i, cap)>> ELSE << >>
      [] nd.k = "open" ->
           <<Config(rest, i, [cap EXCEPT ![nd.n] = <<i, i>>])>>
      [] nd.k = "close" ->
           <<Config(rest, i, [cap EXCEPT ![nd.n] = <<cap[nd.n][1], i>>])>>
      [] nd.k = "alt" ->
           [a \in DOMAIN nd.alts |-> Config(nd.alts[a] \o rest, i, cap)]
      [] nd.k = "opt" ->
           <<Config(nd.sub \o rest, i, cap), Config(rest, i, cap)>>
      [] nd.k = "rep" ->
           RepAttempts(nd, rest, i, cap, RunLength(text, ic, nd.cls, i, nd.max))

\* the match of the nodes at position i, as re's backtracking finds it
RECURSIVE Match(_, _, _, _, _)
RECURSIVE MatchFirst(_, _, _)
Match(text, ic, nodes, i, cap) ==
    IF Len(nodes) = 0 THEN [ok |-> TRUE, end |-> i, cap |-> cap]
    ELSE MatchFirst(text, ic, Attempts(text, ic, Head(nodes), Tail(nodes), i, cap))
MatchFirst(text, ic, configs) ==
    FirstOk([k \in DOMAIN configs |->
                Match(text, ic, configs[k].nodes, configs[k].i, configs[k].cap)])

\* re.search(pattern, text[, re.IGNORECASE]), scanning from position `from`:
\* the match at the leftmost position that has one
MatchAt(m, start) ==
    IF m.ok THEN [ok |-> TRUE, start |-> start, end |-> m.end, cap |-> m.cap]
    ELSE NoMatch
SearchFrom(text, ic, nodes, from) ==
    FirstOk([k \in 1..(Len(text) + 2 - from) |->
                MatchAt(Match(text, ic, nodes, from + k - 1, NoGroups), from + k - 1)])
Search(text, ic, nodes) == SearchFrom(text, ic, nodes, 1)

\* match.group(n)
Group(text, m, n) == SubSeq(text, m.cap[n][1], m.cap[n][2] - 1)

\* list(re.finditer(pattern, text, re.IGNORECASE)): the non-overlapping
\* matches from left to right
RECURSIVE FindIterFrom(_, _, _, _)
RECURSIVE MatchesFrom(_, _, _, _)
FindIterFrom(text, ic, nodes, from) ==
    MatchesFrom(text, ic, nodes, SearchFrom(text, ic, nodes, from))
MatchesFrom(text, ic, nodes, m) ==
    IF ~m.ok THEN << >>
    ELSE <<m>> \o FindIterFrom(text, ic, nodes,
                               IF m.end > m.start THEN m.end ELSE m.end + 1)
FindIter(text, ic, nodes) == FindIterFrom(text, ic, nodes, 1)

(***************************************************************************)
(* float: str -> float -> str, and the arithmetic of check_eligibility     *)
(***************************************************************************)
\* float(s) raises ValueError unless s is [-]digits[.digits] with a digit
\* (s holds only digits, '.' and '-' where this is used)
FloatSyntaxOK(s) ==
    LET body == IF Len(s) > 0 /\ Head(s) = "-" THEN Tail(s) ELSE s
    IN /\ \A i \in DOMAIN body : body[i] \in Digits \cup {"."}
       /\ \E i \in DOMAIN body : body[i] \in Digits
       /\ Cardinality({i \in DOMAIN body : body[i] = "."}) <= 1

IntPart(body) ==
    IF \E i \in DOMAIN body : body[i] = "."
    THEN SubSeq(body, 1, (CHOOSE i \in DOMAIN body : body[i] = ".") - 1)
    ELSE body
FracPart(body) ==
    IF \E i \in DOMAIN body : body[i] = "."
    THEN SubSeq(body, (CHOOSE i \in DOMAIN body : body[i] = ".") + 1, Len(body))
    ELSE EmptyStr

RECURSIVE StripLeadingZeros(_)
StripLeadingZeros(d) ==
    IF Len(d) > 1 /\ Head(d) = "0" THEN StripLeadingZeros(Tail(d)) ELSE d
RECURSIVE StripTrailingZeros(_)
StripTrailingZeros(d) ==
    IF Len(d) > 1 /\ d[Len(d)] = "0"
    THEN StripTrailingZeros(SubSeq(d, 1, Len(d) - 1))
    ELSE d

\* str(float(s)) for s accepted by float: the shortest decimal that reads back
\* as the same double, which for a decimal of at most 15 significant digits
\* and a magnitude in [1e-4, 1e16) (or zero) is that decimal without its
\* redundant zeros and with at least one digit on each side of the point
StrOfFloat(s) ==
    LET neg == Head(s) = "-"
        body == IF neg THEN Tail(s) ELSE s
        ip == IF Len(IntPart(body)) = 0 THEN <<"0">> ELSE StripLeadingZeros(IntPart(body))
        fp == IF Len(FracPart(body)) = 0 THEN <<"0">> ELSE StripTrailingZeros(FracPart(body))
    IN (IF neg THEN <<"-">> ELSE EmptyStr) \o ip \o <<".">> \o fp

DigitValue(c) == CHOOSE n \in 0..9 : <<"0","1","2","3","4","5","6","7","8","9">>[n + 1] = c
RECURSIVE DigitsToNat(_)
DigitsToNat(d) ==
    IF Len(d) = 0 THEN 0
    ELSE 10 * DigitsToNat(SubSeq(d, 1, Len(d) - 1)) + DigitValue(d[Len(d)])
RECURSIVE Pow10(_)
Pow10(n) == IF n = 0 THEN 1 ELSE 10 * Pow10(n - 1)

\* Doubles, kept exactly.  A double x >= 0 is the sequence of IntLimbs +
\* FracLimbs digits in base 2^LimbBits (most significant first) of the integer
\* x * 2^(FracLimbs * LimbBits): exact for 0 and for every double from
\* 2^(53 - FracLimbs * LimbBits) up to 2^(IntLimbs * LimbBits).
LimbBits == 14
IntLimbs == 3
FracLimbs == 6
LimbBase == 2^LimbBits
NumLimbs == IntLimbs + FracLimbs

Zeros(n) == [i \in 1..n |-> 0]
Front(s) == SubSeq(s, 1, Len(s) - 1)
MaxOf(x, y) == IF x >= y THEN x ELSE y
MinOf(x, y) == IF x <= y THEN x ELSE y

RECURSIVE IntToLimbs(_, _)
IntToLimbs(n, k) ==
    IF k = 0 THEN << >> ELSE IntToLimbs(n \div LimbBase, k - 1) \o <<n % LimbBase>>

RECURSIVE LimbsAdd(_, _, _)
LimbsAdd(a, b, carry) ==
    IF Len(a) = 0 THEN << >>
    ELSE LET s == a[Len(a)] + b[Len(b)] + carry
         IN LimbsAdd(Front(a), Front(b), s \div LimbBase) \o <<s % LimbBase>>

LimbsGE(a, b) ==
    \/ a = b
    \/ \E i \in DOMAIN a : a[i] > b[i] /\ \A j \in 1..(i - 1) : a[j] = b[j]

\* bit k of a, bit 0 the least significant
Bit(a, k) == (a[NumLimbs - (k \div LimbBits)] \div 2^(k % LimbBits)) % 2
\* the number of significant bits of a
BitLen(a) ==
    LET set == {k \in 0..(NumLimbs * LimbBits - 1) : Bit(a, k) = 1}
    IN IF set = {} THEN 0 ELSE (CHOOSE k \in set : \A m \in set : k >= m) + 1
\* a with its bits below bit k cleared
ClearBelow(a, k) ==
    [i \in 1..NumLimbs |->
        LET lo == (NumLimbs - i) * LimbBits
        IN IF k >= lo + LimbBits THEN 0
           ELSE IF k <= lo THEN a[i]
           ELSE a[i] - (a[i] % 2^(k - lo))]
\* 2^k
Pow2Limbs(k) ==
    [i \in 1..NumLimbs |-> IF NumLimbs - i = k \div LimbBits THEN 2^(k % LimbBits) ELSE 0]

\* Round to nearest, ties to even, to the 53 significant bits of a double;
\* sticky says that the exact value has something below the last bit of a.
RoundToDouble(a, sticky) ==
    LET drop == BitLen(a) - 53
        below == sticky \/ \E k \in 0..(drop - 2) : Bit(a, k) = 1
        up == Bit(a, drop - 1) = 1 /\ (below \/ Bit(a, drop) = 1)
    IN IF drop <= 0 THEN a
       ELSE IF up THEN LimbsAdd(ClearBelow(a, drop), Pow2Limbs(drop), 0)
       ELSE ClearBelow(a, drop)

\* the quotient and the remainder of num / d, digit by digit
RECURSIVE DivLimbs(_, _, _)
DivLimbs(num, r, d) ==
    IF Len(num) = 0 THEN [q |-> << >>, r |-> r]
    ELSE LET cur == r * LimbBase + Head(num)
             sub == DivLimbs(Tail(num), cur % d, d)
         IN [q |-> <<cur \div d>> \o sub.q, r |-> sub.r]

\* float(s) for s = digits.digits >= 0: the double nearest to the decimal
FloatOf(s) ==
    LET ip == IntPart(s)
        fp == FracPart(s)
        dv == DivLimbs(IntToLimbs(DigitsToNat(ip \o fp), IntLimbs) \o Zeros(FracLimbs),
                       0, Pow10(Len(fp)))
    IN RoundToDouble(dv.q, dv.r # 0)
FloatOfInt(n) == IntToLimbs(n, IntLimbs) \o Zeros(FracLimbs)
\* x + y on doubles
FloatAdd(x, y) == RoundToDouble(LimbsAdd(x, y, 0), FALSE)
\* sum(float(t.get("amount", 0)) for t in items), left to right from 0
RECURSIVE FloatSum(_)
FloatSum(items) ==
    IF Len(items) = 0 THEN FloatOfInt(0)
    ELSE FloatAdd(FloatSum(Front(items)), FloatOf(items[Len(items)].amount))

(***************************************************************************)
(* normalize_date, normalize_currency, extract_field                       *)
(***************************************************************************)
\* re.sub(r'[^\d.,\-]', '', s).replace(',', '')
Cleaned(s) ==
    SelectSeq(SelectSeq(s, LAMBDA c : c \in Digits \cup {".", ",", "-"}), LAMBDA c : c # ",")

normalize_currency(amount_str) ==
    IF amount_str = None \/ Len(amount_str) = 0 THEN None
    ELSE IF FloatSyntaxOK(Cleaned(amount_str)) THEN StrOfFloat(Cleaned(amount_str))
    ELSE None

D4 == <<Rep(Set(Digits), 4, 4)>>
D2 == <<Rep(Set(Digits), 2, 2)>>
DateIso == <<Open(1)>> \o D4 \o <<Close(1), Set({"-"}), Open(2)>> \o D2
           \o <<Close(2), Set({"-"}), Open(3)>> \o D2 \o <<Close(3)>>
DateSlash == <<Open(1)>> \o D2 \o <<Close(1), Set({"/"}), Open(2)>> \o D2
             \o <<Close(2), Set({"/"}), Open(3)>> \o D4 \o <<Close(3)>>
DateDash == <<Open(1)>> \o D2 \o <<Close(1), Set({"-"}), Open(2)>> \o D2
            \o <<Close(2), Set({"-"}), Open(3)>> \o D4 \o <<Close(3)>>
DateMonthName == <<Open(1), Rep(Set(Digits), 1, 2), Close(1), Plus(Whitespace),
                   Open(2), Plus(Letters), Close(2), Plus(Whitespace), Open(3)>>
                 \o D4 \o <<Close(3)>>

\* datetime.strptime(s, '%b').month, 0 standing for ValueError
MonthAbbr == <<<<"j","a","n">>,
              <<"f","e","b">>,
              <<"m","a","r">>,
              <<"a","p","r">>,
              <<"m","a","y">>,
              <<"j","u","n">>,
              <<"j","u","l">>,
              <<"a","u","g">>,
              <<"s","e","p">>,
              <<"o","c","t">>,
              <<"n","o","v">>,
              <<"d","e","c">>>>
MonthDigits == <<<<"0","1">>, <<"0","2">>, <<"0","3">>, <<"0","4">>, <<"0","5">>, <<"0","6">>, <<"0","7">>, <<"0","8">>, <<"0","9">>, <<"1","0">>, <<"1","1">>, <<"1","2">>>>
MonthOf(s) ==
    IF \E m \in DOMAIN MonthAbbr : MonthAbbr[m] = Lower(s)
    THEN CHOOSE m \in DOMAIN MonthAbbr : MonthAbbr[m] = Lower(s)
    ELSE 0
ZfillStr2(s) == IF Len(s) < 2 THEN [i \in 1..(2 - Len(s)) |-> "0"] \o s ELSE s

DayMonthYear(date_str, m) ==
    Group(date_str, m, 3) \o <<"-">> \o ZfillStr2(Group(date_str, m, 2))
    \o <<"-">> \o ZfillStr2(Group(date_str, m, 1))
MonthNameDate(date_str, m, month) ==
    IF month # 0
    THEN Group(date_str, m, 3) \o <<"-">> \o MonthDigits[month]
         \o <<"-">> \o ZfillStr2(Group(date_str, m, 1))
    ELSE None
\* the four formats in the order the source tries them, m0..m3 being the
\* searches of their patterns
DateOf(date_str, m0, m1, m2, m3) ==
    IF m0.ok THEN SubSeq(date_str, m0.start, m0.end - 1)   \* match.group(0)
    ELSE IF m1.ok THEN DayMonthYear(date_str, m1)
    ELSE IF m2.ok THEN DayMonthYear(date_str, m2)
    ELSE IF m3.ok
         THEN MonthNameDate(date_str, m3,
                            MonthOf(SubSeq(Group(date_str, m3, 2), 1,
                                           MinOf(3, Len(Group(date_str, m3, 2))))))
    ELSE None
normalize_date(date_str) ==
    IF date_str = None \/ Len(date_str) = 0 \/ date_str = <<"n","u","l","l">> THEN None
    ELSE DateOf(date_str, Search(date_str, FALSE, DateIso),
                          Search(date_str, FALSE, DateSlash),
                          Search(date_str, FALSE, DateDash),
                          Search(date_str, FALSE, DateMonthName))

RECURSIVE extract_field_from(_, _, _)
RECURSIVE FieldOf(_, _, _, _)
extract_field_from(text, patterns, p) ==
    IF p > Len(patterns) THEN None
    ELSE FieldOf(text, patterns, p, Search(text, TRUE, patterns[p]))
\* the first group of match m of pattern p, or the next pattern's turn
FieldOf(text, patterns, p, m) ==
    IF m.ok THEN Strip(Group(text, m, 1))
    ELSE extract_field_from(text, patterns, p + 1)
extract_field(text, patterns) == extract_field_from(text, patterns, 1)

(***************************************************************************)
(* detect_document_type                                                    *)
(***************************************************************************)
PQ_FORM == <<"P","Q","_","F","O","R","M">>
IMPAIRMENT_FORM == <<"I","M","P","A","I","R","M","E","N","T","_","F","O","R","M">>
INVOICE == <<"I","N","V","O","I","C","E">>
PURCHASE_ORDER == <<"P","U","R","C","H","A","S","E","_","O","R","D","E","R">>
DELIVERY_NOTE == <<"D","E","L","I","V","E","R","Y","_","N","O","T","E">>
VENDOR_ONBOARDING == <<"V","E","N","D","O","R","_","O","N","B","O","A","R","D","I","N","G">>
UNKNOWN == <<"U","N","K","N","O","W","N">>

PqTerms == {<<"p","r","e","-","q","u","a","l","i","f","i","c","a","t","i","o","n">>, <<"p","r","e","q","u","a","l","i","f","i","c","a","t","i","o","n">>, <<"p","q"," ","f","o","r","m">>, <<"t","u","r","n","o","v","e","r">>}
ImpairmentTerms == {<<"i","m","p","a","i","r","m","e","n","t">>, <<"a","s","s","e","t"," ","i","m","p","a","i","r","m","e","n","t">>}
InvoiceTerms == {<<"i","n","v","o","i","c","e">>}
PurchaseOrderTerms == {<<"p","u","r","c","h","a","s","e"," ","o","r","d","e","r">>, <<"p",".","o",".">>, <<"p","o"," ","n","u","m","b","e","r">>}
DeliveryTerms == {<<"d","e","l","i","v","e","r","y"," ","n","o","t","e">>, <<"d","e","l","i","v","e","r","y"," ","r","e","p","o","r","t">>, <<"g","o","o","d","s"," ","r","e","c","e","i","v","e","d">>}
VendorTerms == {<<"v","e","n","d","o","r">>, <<"s","u","p","p","l","i","e","r">>, <<"o","n","b","o","a","r","d","i","n","g">>}

\* any(term in text_lower for term in terms)
AnyTerm(terms, text_lower) == \E term \in terms : Contains(text_lower, term)

\* a faulty variant of detect_document_type: the 'invoice' rule moved to the top
InvoiceFirst(text) ==
    LET text_lower == Lower(text)
    IN IF AnyTerm(InvoiceTerms, text_lower) THEN INVOICE
       ELSE IF AnyTerm(PqTerms, text_lower) THEN PQ_FORM
       ELSE IF AnyTerm(ImpairmentTerms, text_lower) THEN IMPAIRMENT_FORM
       ELSE IF AnyTerm(PurchaseOrderTerms, text_lower) THEN PURCHASE_ORDER
       ELSE IF AnyTerm(DeliveryTerms, text_lower) THEN DELIVERY_NOTE
       ELSE IF AnyTerm(VendorTerms, text_lower) THEN VENDOR_ONBOARDING
       ELSE UNKNOWN

detect_document_type(text) ==
    LET text_lower == Lower(text)
    IN IF AnyTerm(PqTerms, text_lower) THEN PQ_FORM
       ELSE IF AnyTerm(ImpairmentTerms, text_lower) THEN IMPAIRMENT_FORM
       ELSE IF AnyTerm(InvoiceTerms, text_lower) THEN INVOICE
       ELSE IF AnyTerm(PurchaseOrderTerms, text_lower) THEN PURCHASE_ORDER
       ELSE IF AnyTerm(DeliveryTerms, text_lower) THEN DELIVERY_NOTE
       ELSE IF AnyTerm(VendorTerms, text_lower) THEN VENDOR_ONBOARDING
       ELSE UNKNOWN

(***************************************************************************)
(* extract_line_items                                                      *)
(***************************************************************************)
\* the item built from one row of at least 3 columns
LineItem(row) ==
    [description |-> IF Len(row) > 0 THEN row[1] ELSE None,
     quantity    |-> IF Len(row) > 1 THEN normalize_currency(row[2]) ELSE None,
     unit_price  |-> IF Len(row) > 2 THEN normalize_currency(row[3]) ELSE None,
     amount      |-> IF Len(row) > 3 THEN normalize_currency(row[4]) ELSE None]

\* a faulty variant of DataRows: for row in table, the header included
AllRows(table) == table

\* for row in table[1:]
DataRows(table) == Tail(table)
\* if len(row) >= 3
IsItemRow(row) == Len(row) >= 3
\* if len(table) < 2: continue
SkipTable(table) == Len(table) < 2

RECURSIVE ItemsOfRows(_)
ItemsOfRows(rows) ==
    IF Len(rows) = 0 THEN << >>
    ELSE (IF IsItemRow(Head(rows)) THEN <<LineItem(Head(rows))>> ELSE << >>)
         \o ItemsOfRows(Tail(rows))

RECURSIVE extract_line_items(_, _)
extract_line_items(text, tbls) ==
    IF Len(tbls) = 0 THEN << >>
    ELSE (IF SkipTable(Head(tbls)) THEN << >> ELSE ItemsOfRows(DataRows(Head(tbls))))
         \o extract_line_items(text, Tail(tbls))

(***************************************************************************)
(* extract_turnover, check_eligibility                                     *)
(***************************************************************************)
ColonSpace == Whitespace \cup {":"}
AmountChars == Digits \cup {",", "."}
TurnoverPatterns == <<
    \* r'(\d{4})[:\s]+[^\d]*?([\d,\.]+)'
    <<Open(1)>> \o D4 \o <<Close(1), Plus(ColonSpace),
      LazyRep(NotSet(Digits), 0, Inf), Open(2), Plus(AmountChars), Close(2)>>,
    \* r'year[:\s]+(\d{4})[^\d]*?([\d,\.]+)'
    Lit(<<"y","e","a","r">>) \o <<Plus(ColonSpace), Open(1)>> \o D4 \o <<Close(1),
      LazyRep(NotSet(Digits), 0, Inf), Open(2), Plus(AmountChars), Close(2)>> >>

\* the inner loop: one entry per match whose amount normalizes
RECURSIVE TurnoverOfMatches(_, _)
TurnoverOfMatches(text, ms) ==
    IF Len(ms) = 0 THEN << >>
    ELSE LET year == Group(text, Head(ms), 1)
             amount == normalize_currency(Group(text, Head(ms), 2))
         IN (IF amount # None /\ Len(amount) > 0
             THEN <<[year |-> year, amount |-> amount]>> ELSE << >>)
            \o TurnoverOfMatches(text, Tail(ms))

\* the outer loop: turnover_data after all patterns
RECURSIVE TurnoverData(_, _)
TurnoverData(text, p) ==
    IF p > Len(TurnoverPatterns) THEN << >>
    ELSE TurnoverOfMatches(text, FindIter(text, TRUE, TurnoverPatterns[p]))
         \o TurnoverData(text, p + 1)

\* a faulty variant of FirstThree: turnover_data[-3:], the "last 3 years" of
\* the source's comment
LastThree(turnover_data) ==
    SubSeq(turnover_data, MaxOf(1, Len(turnover_data) - 2), Len(turnover_data))

\* turnover_data[:3]
FirstThree(turnover_data) == SubSeq(turnover_data, 1, MinOf(3, Len(turnover_data)))

extract_turnover(text) == FirstThree(TurnoverData(text, 1))


\* total_turnover >= 1000000
MeetsThreshold(total_turnover) == LimbsGE(total_turnover, FloatOfInt(1000000))

check_eligibility(data) ==
    IF Len(data.turnover_last_3_years) > 0
    THEN IF MeetsThreshold(FloatSum(data.turnover_last_3_years))
         THEN [is_eligible |-> PyTrue, reason |->
                 <<"M","e","e","t","s"," ","m","i","n","i","m","u","m"," ","t","u","r","n","o","v","e","r"," ","r","e","q","u","i","r","e","m","e","n","t">>]
         ELSE [is_eligible |-> PyFalse, reason |->
                 <<"B","e","l","o","w"," ","m","i","n","i","m","u","m"," ","t","u","r","n","o","v","e","r"," ","t","h","r","e","s","h","o","l","d">>]
    ELSE [is_eligible |-> None, reason |-> EmptyStr]

(***************************************************************************)
(* extract_procurement_data, steps 3 to 7                                  *)
(***************************************************************************)
RestOfLine == <<Open(1), Rep(NotSet({"\n"}), 1, Inf), Close(1)>>
Token == <<Open(1), Rep(NotSet(Whitespace), 1, Inf), Close(1)>>
RefToken == <<Open(1), Plus(UpperSet \cup Digits \cup {"-"}), Close(1)>>
AmountToken == <<LazyRep(NotSet(Digits), 0, Inf), Open(1), Plus(AmountChars), Close(1)>>
\* (?:word|word|...)
LitAlt(words) == [k |-> "alt", alts |-> [i \in DOMAIN words |-> Lit(words[i])]]

vendor_patterns == <<
    Lit(<<"v","e","n","d","o","r">>) \o <<Plus(ColonSpace)>> \o RestOfLine,
    Lit(<<"s","u","p","p","l","i","e","r">>) \o <<Plus(ColonSpace)>> \o RestOfLine,
    Lit(<<"c","o","m","p","a","n","y">>) \o <<Plus(ColonSpace)>> \o RestOfLine,
    Lit(<<"b","u","y","e","r">>) \o <<Plus(ColonSpace)>> \o RestOfLine,
    <<Bol, Open(1), Set(UpperSet), Plus(Letters \cup Whitespace),
      LitAlt(<<<<"I","n","c">>, <<"C","o","r","p">>, <<"L","L","C">>, <<"L","t","d">>, <<"L","i","m","i","t","e","d">>, <<"C","o">>, <<"C","o","r","p","o","r","a","t","i","o","n">>,
               <<"S","o","l","u","t","i","o","n","s">>, <<"T","e","c","h","n","o","l","o","g","i","e","s">>, <<"E","n","t","e","r","p","r","i","s","e","s">>>>),
      Opt(<<Set({"."})>>), Close(1)>> >>

invoice_patterns == <<
    Lit(<<"i","n","v","o","i","c","e">>) \o <<Star(Whitespace), LitAlt(<<<<"n","u","m","b","e","r">>, <<"n","o">>, <<"#">>>>),
                          Plus(ColonSpace)>> \o Token,
    Lit(<<"i","n","v">>) \o <<Plus(ColonSpace)>> \o Token >>

po_patterns == <<
    Lit(<<"P","O">>) \o <<Plus(Whitespace)>> \o Lit(<<"R","e","f",":">>) \o <<Star(Whitespace)>> \o RefToken,
    <<Set({"P"}), Opt(<<Set({"."})>>), Set({"O"}), Opt(<<Set({"."})>>), Star(Whitespace)>>
        \o Lit(<<"R","e","f",":">>) \o <<Star(Whitespace)>> \o RefToken,
    <<LitAlt(<<<<"P","u","r","c","h","a","s","e"," ","O","r","d","e","r">>, <<"P","O">>, <<"P",".","O",".">>>>), Star(Whitespace),
      LitAlt(<<<<"N","u","m","b","e","r">>, <<"N","o">>, <<"#">>, <<":">>>>), Star(Whitespace),
      Opt(<<Set({":"})>>), Star(Whitespace)>> \o RefToken,
    <<LitAlt(<<<<"p","o">>, <<"p",".","o",".">>>>), Star(Whitespace)>> \o Lit(<<"r","e","f",":">>)
        \o <<Star(Whitespace)>> \o Token >>

tax_patterns == <<
    <<LitAlt(<<<<"t","a","x">>, <<"g","s","t">>, <<"v","a","t">>>>), Star(Whitespace),
      Opt(<<LitAlt(<<<<"i","d">>, <<"n","u","m","b","e","r">>, <<"n","o">>>>)>>), Plus(ColonSpace)>> \o Token,
    Lit(<<"g","s","t","i","n">>) \o <<Plus(ColonSpace)>> \o Token >>

date_patterns == <<
    <<Opt(Lit(<<"i","n","v","o","i","c","e">>) \o <<Star(Whitespace)>>)>> \o Lit(<<"d","a","t","e">>)
        \o <<Plus(ColonSpace)>> \o RestOfLine,
    Lit(<<"d","a","t","e">>) \o <<Opt(<<Set({"d"})>>), Plus(ColonSpace)>> \o RestOfLine >>

total_patterns == <<
    Lit(<<"t","o","t","a","l">>) \o <<Plus(ColonSpace)>> \o AmountToken,
    Lit(<<"g","r","a","n","d">>) \o <<Plus(Whitespace)>> \o Lit(<<"t","o","t","a","l">>) \o <<Plus(ColonSpace)>>
        \o AmountToken,
    Lit(<<"a","m","o","u","n","t">>) \o <<Plus(ColonSpace)>> \o AmountToken >>

\* "U+20B9" is the rupee sign, one character
Currency(text) ==
    IF \E i \in DOMAIN text : text[i] = "$" THEN <<"U","S","D">>
    ELSE IF \E i \in DOMAIN text : text[i] = "U+20B9" THEN <<"I","N","R">>
    ELSE None

\* Step 5: the dict literal
OutputDict(text, tbls, method, doc_type) ==
    [document_type |-> doc_type,
     vendor_name |-> extract_field(text, vendor_patterns),
     vendor_address |-> None,
     tax_id |-> extract_field(text, tax_patterns),
     invoice_number |-> extract_field(text, invoice_patterns),
     po_number |-> extract_field(text, po_patterns),
     invoice_date |-> normalize_date(extract_field(text, date_patterns)),
     delivery_date |-> None,
     total_amount |-> normalize_currency(extract_field(text, total_patterns)),
     currency |-> Currency(text),
     turnover_last_3_years |-> IF doc_type = PQ_FORM THEN extract_turnover(text) ELSE << >>,
     budget_requirement |-> None,
     eligibility_check |-> EmptyDict,
     line_items |-> extract_line_items(text, tbls),
     raw_text |-> SubSeq(text, 1, MinOf(1000, Len(text))),   \* raw_text[:1000]
     method_used |-> method]

\* Step 6: if doc_type == "PQ_FORM": output["eligibility_check"] = ...
WithEligibility(out) ==
    IF out.document_type = PQ_FORM
    THEN [out EXCEPT !.eligibility_check = check_eligibility(out)]
    ELSE out

\* Steps 3 to 6: output as it stands before _clean_nulls
BuildOutput(text, tbls, method) ==
    WithEligibility(OutputDict(text, tbls, method, detect_document_type(text)))

(***************************************************************************)
(* _clean_nulls.  The branch isinstance takes is fixed by where a value    *)
(* sits in the output: the values of line_items and turnover_last_3_years  *)
(* are lists of dicts of scalars, eligibility_check is a dict of scalars,  *)
(* every other value is a scalar.                                          *)
(***************************************************************************)
NullStr == <<"n","u","l","l">>
ListKeys == {"line_items", "turnover_last_3_years"}
DictKeys == {"eligibility_check"}

\* elif data is None: return "null" / else: return data
CleanScalar(data) == IF data = None THEN NullStr ELSE data
\* isinstance(data, dict), the values scalars
CleanDict(data) == [k \in DOMAIN data |-> CleanScalar(data[k])]
\* a faulty variant of CleanList: the list returned as it is, its items not
\* walked
ListUnwalked(data) == data

\* isinstance(data, list), the items dicts
CleanList(data) == [i \in DOMAIN data |-> CleanDict(data[i])]
clean_nulls(data) ==
    [k \in DOMAIN data |->
        IF k \in ListKeys THEN CleanList(data[k])
        ELSE IF k \in DictKeys THEN CleanDict(data[k])
        ELSE CleanScalar(data[k])]

(***************************************************************************)
(* extract_with_pdfplumber.  What the file system and pdfplumber answer    *)
(* for a path is a record: whether the file exists, whether                *)
(* pdfplumber.open raises, whether closing the file at the end of the with *)
(* block raises, and per page what extract_text and extract_tables return  *)
(* or which of the two raises.                                             *)
(***************************************************************************)
min_text_threshold == 20

\* the for loop over pdf.pages: all_text and all_tables, or the exception
RECURSIVE PagesLoop(_, _, _)
PagesLoop(pages, all_text, all_tables) ==
    IF Len(pages) = 0 THEN [raised |-> FALSE, all_text |-> all_text, all_tables |-> all_tables]
    ELSE LET page == Head(pages)
             text2 == IF page.text # None /\ Len(page.text) > 0
                      THEN Append(all_text, page.text) ELSE all_text
             tables2 == IF Len(page.tables) > 0
                        THEN all_tables \o page.tables ELSE all_tables
         IN IF page.raises = "extract_text" THEN [raised |-> TRUE]
            ELSE IF page.raises = "extract_tables" THEN [raised |-> TRUE]
            ELSE PagesLoop(Tail(pages), text2, tables2)

\* a faulty variant of TextIsSufficient: >= in place of >
AtLeastThreshold(text) == Len(Strip(text)) >= min_text_threshold

\* len(extracted_data["text"].strip()) > self.min_text_threshold
TextIsSufficient(text) == Len(Strip(text)) > min_text_threshold

FailedExtraction == [text |-> EmptyStr, tables |-> << >>, success |-> FALSE]

\* the with block ran to its end: text and tables are assigned, success is
\* set by the length test; an exception of the exit of the with block
\* (pdf.close()) reaches the except clause, which resets success only
AfterPages(file, loop) ==
    IF loop.raised THEN FailedExtraction
    ELSE [text |-> Join(<<"\n">>, loop.all_text),
          tables |-> loop.all_tables,
          success |-> IF file.close_raises THEN FALSE
                      ELSE TextIsSufficient(Join(<<"\n">>, loop.all_text))]

extract_with_pdfplumber(file) ==
    IF ~file.exists THEN FailedExtraction
    ELSE IF file.open_raises THEN FailedExtraction
    ELSE AfterPages(file, PagesLoop(file.pages, << >>, << >>))

(***************************************************************************)
(* extract_with_donut                                                      *)
(***************************************************************************)

\* s.replace(old, "")
RECURSIVE Remove(_, _)
Remove(s, old) ==
    IF ~Contains(s, old) THEN s
    ELSE LET i == CHOOSE i \in 1..Len(s) :
                    /\ SubSeq(s, i, i + Len(old) - 1) = old
                    /\ \A j \in 1..(i - 1) : SubSeq(s, j, j + Len(old) - 1) # old
         IN SubSeq(s, 1, i - 1) \o Remove(SubSeq(s, i + Len(old), Len(s)), old)

\* the body of extract_with_donut after load_donut_model, by what
\* convert_from_path and the model do
DonutResult(outcome, sequence) ==
    IF outcome = "ok"
    THEN [text |-> Remove(Remove(sequence, <<"<","/","s",">">>), <<"<","p","a","d",">">>), success |-> TRUE]
    ELSE [text |-> EmptyStr, success |-> FALSE]

\* a faulty variant of NeedsLoad: load_donut_model without its guard
AlwaysLoad(model) == TRUE

\* if self.donut_model is None
NeedsLoad(model) == model = None

\* a faulty variant of UseFallback: the fallback decided by the text alone
FallbackOnEmptyText(data) == Len(Strip(data.text)) = 0

\* if not plumber_data["success"]
UseFallback(data) == ~data.success

Donut == <<"d","o","n","u","t">>
Pdfplumber == <<"p","d","f","p","l","u","m","b","e","r">>

(***************************************************************************)
(* The inputs                                                              *)
(***************************************************************************)
MaxPages == 2

RowHeader == <<<<"I","t","e","m">>, <<"Q","t","y">>, <<"P","r","i","c","e">>, <<"A","m","o","u","n","t">>>>
RowFour == <<<<"P","e","n">>, <<"2">>, <<"1",".","5","0">>, <<"3",".","0","0">>>>
RowThree == <<None, <<"x">>, <<"1",",","0","0","0",".","5">>>>
RowTwo == <<<<"N","o","t","e">>, <<"n","/","a">>>>
TableA == <<RowHeader, RowFour, RowThree, RowTwo>>

TextInvoice == <<"I","n","v","o","i","c","e"," ","N","o",":"," ","7"," ","T","o","t","a","l",":"," ","$","4","5",".","5">>
TextPadded == <<" "," ","V","e","n","d","o","r",":"," ","A","c","m","e"," ","C","o","r","p"," ","\n">>
TextTwenty == <<"T","u","r","n","o","v","e","r"," ","2","0","2","1",":"," ","5",",","0","0","0">>
TextTurnover == <<"T","u","r","n","o","v","e","r"," ","2","0","2","1",":"," ","5","0","0","0","0","0">>

Page(text, tbls, raises) == [text |-> text, tables |-> tbls, raises |-> raises]
Pages == {Page(TextInvoice, <<TableA>>, "none"),
          Page(TextPadded, <<TableA>>, "none"),
          Page(TextTwenty, << >>, "none"),
          Page(TextTurnover, <<<<RowHeader>>>>, "none"),
          Page(None, << >>, "none"),
          Page(None, << >>, "extract_text"),
          Page(TextInvoice, << >>, "extract_tables")}
PageLists == UNION {[1..n -> Pages] : n \in 0..MaxPages}
Pdf(exists, open_raises, close_raises, pages) ==
    [exists |-> exists, open_raises |-> open_raises, close_raises |-> close_raises,
     pages |-> pages]
Pdfs == {Pdf(FALSE, FALSE, FALSE, << >>), Pdf(TRUE, TRUE, FALSE, << >>)}
        \cup {Pdf(TRUE, FALSE, c, ps) : c \in BOOLEAN, ps \in PageLists}

DonutSequences == {EmptyStr,
                   <<"<","s","_","d","o","c",">","P","Q"," ","F","o","r","m","<","/","s",">">>,
                   <<"<","p","a","d",">","D","a","t","e","d"," ","5"," ","M","a","r"," ","2","0","2","4","<","/","s",">","<","p","a","d",">">>}
DonutOutcomes == {"convert_raises", "no_images", "inference_raises", "ok"}
LoadFailures == {"processor_raises", "model_raises"}

(***************************************************************************)
(* extract_procurement_data on one extractor, call after call              *)
(***************************************************************************)
NoHistory == [donut_invoked |-> FALSE, load_attempted |-> FALSE,
              cached_before |-> FALSE, prior_fallback |-> FALSE]

\* import of the module, then ProcurementPDFExtractor()
Init ==
    /\ DONUT_AVAILABLE \in BOOLEAN
    /\ donut_model = None
    /\ donut_processor = None
    /\ pc = "idle"
    /\ pdf = NotComputed
    /\ plumber_data = NotComputed
    /\ donut_data = NotComputed
    /\ raw_text = NotComputed
    /\ tables = NotComputed
    /\ method_used = NotComputed
    /\ output = NotComputed
    /\ built = NotComputed
    /\ loads = 0
    /\ hist = NoHistory

\* Step 1: plumber_data = self.extract_with_pdfplumber(pdf_path)
ExtractWithPdfplumber ==
    /\ pc = "idle"
    /\ \E file \in Pdfs :
         /\ pdf' = file
         /\ plumber_data' = extract_with_pdfplumber(file)
    /\ pc' = "step2"
    /\ UNCHANGED <<DONUT_AVAILABLE, donut_model, donut_processor, donut_data, raw_text,
                   tables, method_used, output, built, loads, hist>>

\* Step 2, else branch: the text layer is used
UsePdfplumber ==
    /\ pc = "step2"
    /\ ~UseFallback(plumber_data)
    /\ raw_text' = plumber_data.text
    /\ tables' = plumber_data.tables
    /\ method_used' = Pdfplumber
    /\ pc' = "step3"
    /\ UNCHANGED <<DONUT_AVAILABLE, donut_model, donut_processor, pdf, plumber_data,
                   donut_data, output, built, loads, hist>>

\* Step 2, extract_with_donut without the dependency: the early return
DonutUnavailable ==
    /\ pc = "step2"
    /\ UseFallback(plumber_data)
    /\ ~DONUT_AVAILABLE
    /\ donut_data' = [text |-> EmptyStr, success |-> FALSE]
    /\ raw_text' = EmptyStr
    /\ tables' = << >>
    /\ method_used' = Donut
    /\ hist' = [hist EXCEPT !.donut_invoked = TRUE]
    /\ pc' = "step3"
    /\ UNCHANGED <<DONUT_AVAILABLE, donut_model, donut_processor, pdf, plumber_data,
                   output, built, loads>>

\* Step 2, extract_with_donut: load_donut_model loads both objects
LoadDonutModel ==
    /\ pc = "step2"
    /\ UseFallback(plumber_data)
    /\ DONUT_AVAILABLE
    /\ NeedsLoad(donut_model)
    /\ donut_processor' = DonutProcessorObject
    /\ donut_model' = DonutModelObject
    /\ loads' = loads + 1
    /\ hist' = [hist EXCEPT !.donut_invoked = TRUE, !.load_attempted = TRUE,
                            !.cached_before = donut_model # None]
    /\ pc' = "donut"
    /\ UNCHANGED <<DONUT_AVAILABLE, pdf, plumber_data, donut_data, raw_text, tables,
                   method_used, output, built>>

\* Step 2, extract_with_donut: a from_pretrained of load_donut_model raises,
\* outside any try, and the exception leaves extract_procurement_data
LoadDonutModelRaises ==
    /\ pc = "step2"
    /\ UseFallback(plumber_data)
    /\ DONUT_AVAILABLE
    /\ NeedsLoad(donut_model)
    /\ \E failure \in LoadFailures :
         donut_processor' = IF failure = "model_raises" THEN DonutProcessorObject
                            ELSE donut_processor
    /\ hist' = [hist EXCEPT !.donut_invoked = TRUE, !.load_attempted = TRUE,
                            !.cached_before = donut_model # None]
    /\ pc' = "raised"
    /\ UNCHANGED <<DONUT_AVAILABLE, donut_model, pdf, plumber_data, donut_data, raw_text,
                   tables, method_used, output, built, loads>>

\* Step 2, extract_with_donut: load_donut_model finds the model loaded
ReuseDonutModel ==
    /\ pc = "step2"
    /\ UseFallback(plumber_data)
    /\ DONUT_AVAILABLE
    /\ ~NeedsLoad(donut_model)
    /\ hist' = [hist EXCEPT !.donut_invoked = TRUE, !.cached_before = TRUE]
    /\ pc' = "donut"
    /\ UNCHANGED <<DONUT_AVAILABLE, donut_model, donut_processor, pdf, plumber_data,
                   donut_data, raw_text, tables, method_used, output, built, loads>>

\* Step 2, extract_with_donut after load_donut_model, and the locals set from it
RunDonut ==
    /\ pc = "donut"
    /\ \E outcome \in DonutOutcomes, sequence \in DonutSequences :
         /\ donut_data' = DonutResult(outcome, sequence)
         /\ raw_text' = DonutResult(outcome, sequence).text
    /\ tables' = << >>
    /\ method_used' = Donut
    /\ pc' = "step3"
    /\ UNCHANGED <<DONUT_AVAILABLE, donut_model, donut_processor, pdf, plumber_data,
                   output, built, loads, hist>>

\* Steps 3 to 7
Assemble ==
    /\ pc = "step3"
    /\ built' = BuildOutput(raw_text, tables, method_used)
    /\ output' = clean_nulls(BuildOutput(raw_text, tables, method_used))
    /\ pc' = "returned"
    /\ UNCHANGED <<DONUT_AVAILABLE, donut_model, donut_processor, pdf, plumber_data,
                   donut_data, raw_text, tables, method_used, loads, hist>>

\* the call is over (return output, or the exception reached the caller); the
\* extractor is ready for the next call
Return ==
    /\ pc \in {"returned", "raised"}
    /\ pc' = "idle"
    /\ pdf' = NotComputed
    /\ plumber_data' = NotComputed
    /\ donut_data' = NotComputed
    /\ raw_text' = NotComputed
    /\ tables' = NotComputed
    /\ method_used' = NotComputed
    /\ output' = NotComputed
    /\ built' = NotComputed
    /\ hist' = [NoHistory EXCEPT !.prior_fallback =
                   hist.prior_fallback \/ (hist.donut_invoked /\ DONUT_AVAILABLE)]
    /\ UNCHANGED <<DONUT_AVAILABLE, donut_model, donut_processor, loads>>

Next ==
    \/ ExtractWithPdfplumber
    \/ UsePdfplumber
    \/ DonutUnavailable
    \/ LoadDonutModel
    \/ LoadDonutModelRaises
    \/ ReuseDonutModel
    \/ RunDonut
    \/ Assemble
    \/ Return

Spec == Init /\ [][Next]_vars

(***************************************************************************)
(* Properties of extract_procurement_data (Spec)                           *)
(***************************************************************************)
InCall == pc # "idle"
AfterStep2 == pc \in {"donut", "step3", "returned", "raised"}

\* C1: in every call extract_with_donut is invoked exactly when
\* extract_with_pdfplumber returned success = False; method_used is "donut" in
\* that case and "pdfplumber" otherwise, it has no other value, it never names
\* a path that did not run, and the record carries it
MethodNamesThePathThatRan ==
    /\ pc = "step2" => ~hist.donut_invoked
    /\ AfterStep2 => (hist.donut_invoked <=> ~plumber_data.success)
    /\ pc \in {"step3", "returned"} =>
         /\ method_used \in {Donut, Pdfplumber}
         /\ (method_used = Donut) <=> ~plumber_data.success
         /\ (method_used = Donut) <=> hist.donut_invoked
         /\ (method_used = Pdfplumber) => raw_text = plumber_data.text
    /\ pc = "returned" => output.method_used = method_used

\* a call that took the fallback and returned a record saying so
DonutRecordReturned ==
    /\ pc = "returned"
    /\ ~plumber_data.success
    /\ hist.donut_invoked
    /\ output.method_used = Donut

\* C2: whatever fails (file missing or unopenable, a page that cannot be
\* parsed, the vision dependency missing, loading or running the model), no
\* exception leaves extract_procurement_data
NoExceptionEscapes == pc # "raised"

\* the fallback failed or was not available, in a call that is over
FallbackFailed ==
    /\ ~plumber_data.success
    /\ \/ pc = "raised"
       \/ pc = "returned" /\ ~donut_data.success

RegexFields == {"vendor_name", "tax_id", "invoice_number", "po_number",
                "invoice_date", "total_amount", "currency"}

\* C8: when the text extraction fails and the fallback fails too or is not
\* available, the call is not aborted: it returns a record with method_used
\* "donut", raw_text "", document_type UNKNOWN, every field found by a
\* regular expression "null", and no line items and no turnover entries
EmptyRecordWhenBothFail ==
    (pc \in {"returned", "raised"} /\ FallbackFailed) =>
        /\ pc = "returned"
        /\ output.method_used = Donut
        /\ output.raw_text = EmptyStr
        /\ output.document_type = UNKNOWN
        /\ \A k \in RegexFields : output[k] = NullStr
        /\ output.line_items = << >>
        /\ output.turnover_last_3_years = << >>

\* the text of the pages as extract_with_pdfplumber joins it, and their tables
PageTexts(pages) == SelectSeq([i \in DOMAIN pages |-> pages[i].text],
                              LAMBDA t : t # None /\ Len(t) > 0)
JoinedText(file) == Join(<<"\n">>, PageTexts(file.pages))
RECURSIVE AllTables(_)
AllTables(pages) ==
    IF Len(pages) = 0 THEN << >> ELSE Head(pages).tables \o AllTables(Tail(pages))

Opened(file) == file.exists /\ ~file.open_raises
PageRaises(file) == \E i \in DOMAIN file.pages : file.pages[i].raises # "none"
\* an exception of opening the file or of reading a page
ReadingRaises(file) == file.exists /\ (file.open_raises \/ PageRaises(file))
\* an exception of closing the file after every page was read
OnlyCloseRaises(file) == Opened(file) /\ ~PageRaises(file) /\ file.close_raises
ExceptionOccurs(file) == ReadingRaises(file) \/ OnlyCloseRaises(file)

\* success = True exactly when no exception occurred and the trimmed text has
\* more than 20 characters
SuccessRule ==
    InCall =>
        plumber_data.success =
            (/\ Opened(pdf)
             /\ ~ExceptionOccurs(pdf)
             /\ Len(Strip(JoinedText(pdf))) > 20)

\* C9 as stated: SuccessRule, and whenever an exception occurs the result is
\* success = False with empty text and empty tables
SuccessRuleAndEmptyOnException ==
    /\ SuccessRule
    /\ (InCall /\ ExceptionOccurs(pdf)) => plumber_data = FailedExtraction

\* C9: SuccessRule; an exception of opening the file or of reading a page
\* leaves success = False with empty text and empty tables; an exception of
\* closing the file after the pages were read leaves success = False with the
\* text and the tables that were read
SuccessRuleAndExceptions ==
    /\ SuccessRule
    /\ (InCall /\ ReadingRaises(pdf)) => plumber_data = FailedExtraction
    /\ (InCall /\ OnlyCloseRaises(pdf)) =>
          plumber_data = [text |-> JoinedText(pdf), tables |-> AllTables(pdf.pages),
                          success |-> FALSE]

\* a file read without any exception whose trimmed text has exactly 20
\* characters: a failed extraction
TwentyCharactersFail ==
    /\ pc = "step2"
    /\ Opened(pdf) /\ ~ExceptionOccurs(pdf)
    /\ Len(Strip(JoinedText(pdf))) = 20
    /\ ~plumber_data.success

FieldNames == {"document_type", "vendor_name", "vendor_address", "tax_id",
               "invoice_number", "po_number", "invoice_date", "delivery_date",
               "total_amount", "currency", "turnover_last_3_years",
               "budget_requirement", "eligibility_check", "line_items",
               "raw_text", "method_used"}

\* value `after` is value `before` with None replaced by "null"
Replaced(before, after) ==
    /\ after # None
    /\ after = IF before = None THEN NullStr ELSE before
\* the same for a dict of scalars
ReplacedInDict(before, after) ==
    /\ DOMAIN after = DOMAIN before
    /\ \A f \in DOMAIN after : Replaced(before[f], after[f])

\* C7: the record returned has no None at any depth (also inside the line
\* items, the turnover entries and the eligibility result): every None has
\* become "null", every other value is as it was before _clean_nulls, and the
\* record has the same fixed field names every time
NoNoneAtAnyDepth ==
    pc = "returned" =>
        /\ DOMAIN output = FieldNames
        /\ DOMAIN built = FieldNames
        /\ \A k \in FieldNames \ (ListKeys \cup DictKeys) : Replaced(built[k], output[k])
        /\ \A k \in DictKeys : ReplacedInDict(built[k], output[k])
        /\ \A k \in ListKeys :
              /\ Len(output[k]) = Len(built[k])
              /\ \A i \in DOMAIN output[k] : ReplacedInDict(built[k][i], output[k][i])

\* a record returned whose line items had a None inside, and whose
\* eligibility result had one
NestedNoneReplaced ==
    /\ pc = "returned"
    /\ \E i \in DOMAIN built.line_items :
          /\ built.line_items[i].description = None
          /\ output.line_items[i].description = NullStr
    /\ output.vendor_address = NullStr

\* during the fallback of a call, with the dependency there
InFallback == AfterStep2 /\ hist.donut_invoked /\ DONUT_AVAILABLE

\* C10 as stated: over the calls on one extractor the model is loaded at most
\* once; it is not loaded before the first call whose text extraction fails
\* with the dependency there, it is loaded during that call, and every later
\* fallback call reuses the cached model and processor and loads nothing
LoadedOnceInFirstFallback ==
    /\ loads <= 1
    /\ (~hist.prior_fallback /\ ~InFallback) => (donut_model = None /\ loads = 0)
    /\ InFallback => (donut_model = DonutModelObject /\ donut_processor = DonutProcessorObject)
    /\ (InFallback /\ hist.prior_fallback) => ~hist.load_attempted

\* C10: over the calls on one extractor the model is loaded successfully at
\* most once; nothing is loaded before the first call whose text extraction
\* fails with the dependency there; a fallback call attempts the load exactly
\* when no model is cached; a load that succeeds leaves model and processor
\* cached and every later fallback call reuses them and loads nothing; a load
\* that fails leaves no model cached, ends the call with the exception, and
\* the next fallback call attempts it again
LoadedOnceUnlessLoadFails ==
    /\ loads <= 1
    /\ (loads = 1) <=> (donut_model = DonutModelObject)
    /\ donut_model \in {None, DonutModelObject}
    /\ (donut_model = DonutModelObject) => (donut_processor = DonutProcessorObject)
    /\ (~hist.prior_fallback /\ ~InFallback) => (donut_model = None /\ loads = 0)
    /\ InFallback => (hist.load_attempted <=> ~hist.cached_before)
    /\ (InFallback /\ pc # "raised") => donut_model = DonutModelObject
    /\ pc = "raised" => (InFallback /\ hist.load_attempted /\ donut_model = None)

\* a later fallback call that found the model of an earlier call and did not
\* load
CachedModelReused ==
    /\ pc = "donut"
    /\ hist.prior_fallback
    /\ hist.cached_before
    /\ ~hist.load_attempted
    /\ loads = 1

(***************************************************************************)
(* The methods applied on their own.  One method is called on an extractor *)
(* that has made no call yet; its arguments are in raw_text and tables     *)
(* (pdf holding the pages a text is made of), what it returns is put in    *)
(* output.                                                                 *)
(***************************************************************************)
FreshExtractor ==
    /\ DONUT_AVAILABLE = FALSE
    /\ donut_model = None
    /\ donut_processor = None
    /\ plumber_data = NotComputed
    /\ donut_data = NotComputed
    /\ method_used = NotComputed
    /\ output = NotComputed
    /\ built = NotComputed
    /\ loads = 0
    /\ hist = NoHistory

\* the least element of a non-empty set of numbers
Least(S) == CHOOSE n \in S : \A m \in S : n <= m

(***************************************************************************)
(* detect_document_type on texts made of keywords                          *)
(***************************************************************************)
MaxKeywords == 2
Keywords == {
    <<"P","r","e","-","Q","u","a","l","i","f","i","c","a","t","i","o","n">>,
    <<"p","r","e","q","u","a","l","i","f","i","c","a","t","i","o","n">>,
    <<"P","Q"," ","F","o","r","m">>,
    <<"T","u","r","n","o","v","e","r">>,
    <<"A","s","s","e","t"," ","I","m","p","a","i","r","m","e","n","t">>,
    <<"I","N","V","O","I","C","E">>,
    <<"I","n","v","o","i","c","e">>,
    <<"P","u","r","c","h","a","s","e"," ","O","r","d","e","r">>,
    <<"P",".","O",".">>,
    <<"P","O"," ","N","u","m","b","e","r">>,
    <<"D","e","l","i","v","e","r","y"," ","N","o","t","e">>,
    <<"d","e","l","i","v","e","r","y"," ","r","e","p","o","r","t">>,
    <<"G","o","o","d","s"," ","R","e","c","e","i","v","e","d">>,
    <<"V","e","n","d","o","r">>,
    <<"s","u","p","p","l","i","e","r">>,
    <<"O","n","b","o","a","r","d","i","n","g">>,
    <<"R","e","c","e","i","p","t">> }
KeywordTexts == {Join(<<" ">>, ks) : ks \in UNION {[1..n -> Keywords] : n \in 0..MaxKeywords}}

InitClassify ==
    /\ FreshExtractor
    /\ pc = "detect"
    /\ pdf = NotComputed
    /\ raw_text \in KeywordTexts
    /\ tables = NotComputed

DetectDocumentType ==
    /\ pc = "detect"
    /\ output' = detect_document_type(raw_text)
    /\ pc' = "detected"
    /\ UNCHANGED <<DONUT_AVAILABLE, donut_model, donut_processor, pdf, plumber_data,
                   donut_data, raw_text, tables, method_used, built, loads, hist>>

SpecClassify == InitClassify /\ [][DetectDocumentType]_vars

\* the rules in their order: a document type and its keyword group
Rules == <<[type |-> PQ_FORM, terms |-> PqTerms],
           [type |-> IMPAIRMENT_FORM, terms |-> ImpairmentTerms],
           [type |-> INVOICE, terms |-> InvoiceTerms],
           [type |-> PURCHASE_ORDER, terms |-> PurchaseOrderTerms],
           [type |-> DELIVERY_NOTE, terms |-> DeliveryTerms],
           [type |-> VENDOR_ONBOARDING, terms |-> VendorTerms]>>
RulesThatHit(text) == {r \in DOMAIN Rules : AnyTerm(Rules[r].terms, Lower(text))}

\* C3: detect_document_type returns the type of the first rule, in the order
\* PQ_FORM, IMPAIRMENT_FORM, INVOICE, PURCHASE_ORDER, DELIVERY_NOTE,
\* VENDOR_ONBOARDING, whose keyword group occurs in the lower-cased text, and
\* UNKNOWN when none occurs; a text with 'invoice' and a pre-qualification
\* keyword is a PQ_FORM
FirstRuleDecides ==
    pc = "detected" =>
        /\ output = IF RulesThatHit(raw_text) = {} THEN UNKNOWN
                    ELSE Rules[Least(RulesThatHit(raw_text))].type
        /\ (Contains(Lower(raw_text), <<"i","n","v","o","i","c","e">>)
            /\ AnyTerm(PqTerms, Lower(raw_text))) => output = PQ_FORM

\* a text with 'invoice' before a pre-qualification keyword, classified PQ_FORM
InvoiceInPqForm ==
    /\ pc = "detected"
    /\ raw_text = <<"I","n","v","o","i","c","e"," ","P","r","e","-","Q","u","a","l","i","f","i","c","a","t","i","o","n">>
    /\ output = PQ_FORM

(***************************************************************************)
(* extract_line_items on lists of tables                                   *)
(***************************************************************************)
MaxRows == 2
MaxTables == 2
Rows == {RowFour, RowThree, RowTwo}
SomeTables == UNION {[1..n -> Rows] : n \in 0..MaxRows}
TableLists == UNION {[1..n -> SomeTables] : n \in 0..MaxTables}

InitLineItems ==
    /\ FreshExtractor
    /\ pc = "extract"
    /\ pdf = NotComputed
    /\ raw_text = EmptyStr
    /\ tables \in TableLists

ExtractLineItems ==
    /\ pc = "extract"
    /\ output' = extract_line_items(raw_text, tables)
    /\ pc' = "extracted"
    /\ UNCHANGED <<DONUT_AVAILABLE, donut_model, donut_processor, pdf, plumber_data,
                   donut_data, raw_text, tables, method_used, built, loads, hist>>

SpecLineItems == InitLineItems /\ [][ExtractLineItems]_vars

\* <<t, r>> for every row r of table t that is not the header, has at least 3
\* columns and sits in a table of at least 2 rows
ItemPlaces(tbls) ==
    {p \in UNION {{<<t, r>> : r \in 2..Len(tbls[t])} : t \in DOMAIN tbls} :
        Len(tbls[p[1]]) >= 2 /\ Len(tbls[p[1]][p[2]]) >= 3}
\* table order, then row order
NotAfter(p, q) == p[1] < q[1] \/ (p[1] = q[1] /\ p[2] <= q[2])
PlaceNumber(tbls, p) == Cardinality({q \in ItemPlaces(tbls) : NotAfter(q, p)})

MaxTurnoverPages == 5
\* found by the first pattern only; the amount reads 15.0
YearColon == <<"2","0","2","1",":"," ","1",",","5">>
\* found by both patterns; the amount reads 70.5
YearWord == <<"Y","e","a","r"," ","2","0","2","2"," ","7","0",".","5","0">>
\* found by the first pattern, with an amount that is no number
YearNoAmount == <<"2","0","2","3",":"," ",",">>
\* found by the second pattern only; the amount reads 0.5
YearWordOnly == <<"y","e","a","r",":","2","0","2","4","x",".","5">>
TurnoverTexts == {YearColon, YearWord, YearNoAmount, YearWordOnly}
TurnoverPageLists ==
    UNION {[1..n -> {Page(t, << >>, "none") : t \in TurnoverTexts}] : n \in 0..MaxTurnoverPages}

InitTurnover ==
    /\ FreshExtractor
    /\ pc = "turnover"
    /\ \E ps \in TurnoverPageLists :
         /\ pdf = Pdf(TRUE, FALSE, FALSE, ps)
         /\ raw_text = extract_with_pdfplumber(Pdf(TRUE, FALSE, FALSE, ps)).text
    /\ tables = NotComputed

ExtractTurnover ==
    /\ pc = "turnover"
    /\ output' = extract_turnover(raw_text)
    /\ pc' = "extracted"
    /\ UNCHANGED <<DONUT_AVAILABLE, donut_model, donut_processor, pdf, plumber_data,
                   donut_data, raw_text, tables, method_used, built, loads, hist>>

SpecTurnover == InitTurnover /\ [][ExtractTurnover]_vars

Entry(year, amount) == [year |-> year, amount |-> amount]
\* the matches with a valid amount that one sweep finds in one page
ValidOfPage(sweep, text) ==
    IF sweep = 1 /\ text = YearColon THEN <<Entry(<<"2","0","2","1">>, <<"1","5",".","0">>)>>
    ELSE IF text = YearWord THEN <<Entry(<<"2","0","2","2">>, <<"7","0",".","5">>)>>
    ELSE IF sweep = 2 /\ text = YearWordOnly THEN <<Entry(<<"2","0","2","4">>, <<"0",".","5">>)>>
    ELSE << >>
RECURSIVE ValidOfSweep(_, _)
ValidOfSweep(sweep, pages) ==
    IF Len(pages) = 0 THEN << >>
    ELSE ValidOfPage(sweep, Head(pages).text) \o ValidOfSweep(sweep, Tail(pages))
\* all of them in scan order: the first sweep, then the second
ValidMatches(pages) == ValidOfSweep(1, pages) \o ValidOfSweep(2, pages)

MaxTurnoverLines == 3
TurnoverLines == {
    <<"T","u","r","n","o","v","e","r"," ","2","0","2","1",":"," ","6","0","3","2","9","6",".","6","9">>,
    <<"2","0","2","2",":"," ","3","1","6","9","1","8",".","4","1">>,
    <<"2","0","2","3",":"," ","7","9","7","8","4",".","9">>,
    <<"2","0","2","0",":"," ","1","0","0","0","0","0","0">>,
    <<"P","Q"," ","F","o","r","m">>,
    <<"2","0","1","9",":"," ","9","9","9","9","9","9",".","9","9">> }
TurnoverLineLists == UNION {[1..n -> TurnoverLines] : n \in 0..MaxTurnoverLines}

InitEligibility ==
    /\ DONUT_AVAILABLE = TRUE
    /\ donut_model = DonutModelObject
    /\ donut_processor = DonutProcessorObject
    /\ pc = "step3"
    /\ pdf = Pdf(TRUE, TRUE, FALSE, << >>)
    /\ plumber_data = FailedExtraction
    /\ \E lines \in TurnoverLineLists :
         /\ donut_data = DonutResult("ok", Join(<<"\n">>, lines))
         /\ raw_text = DonutResult("ok", Join(<<"\n">>, lines)).text
    /\ tables = << >>
    /\ method_used = Donut
    /\ output = NotComputed
    /\ built = NotComputed
    /\ loads = 1
    /\ hist = [donut_invoked |-> TRUE, load_attempted |-> TRUE,
               cached_before |-> FALSE, prior_fallback |-> FALSE]

SpecEligibility == InitEligibility /\ [][Assemble]_vars

\* an amount of at most 2 decimals as a number of hundredths
Hundredths(amount) ==
    DigitsToNat(IntPart(amount)) * 100
    + DigitsToNat(SubSeq(FracPart(amount) \o <<"0","0">>, 1, 2))
RECURSIVE SumOfHundredths(_)
SumOfHundredths(entries) ==
    IF Len(entries) = 0 THEN 0
    ELSE Hundredths(Head(entries).amount) + SumOfHundredths(Tail(entries))

\* C6: for a PQ_FORM with at least one turnover entry is_eligible is True
\* exactly when the sum of the retained amounts is at least 1,000,000; with
\* no entry is_eligible stays None (and becomes "null") and reason stays "";
\* for every other document type eligibility_check is an empty dict
EligibleFromOneMillion ==
    pc = "returned" =>
        /\ (output.document_type = PQ_FORM /\ Len(output.turnover_last_3_years) > 0) =>
              /\ output.eligibility_check.is_eligible \in {PyTrue, PyFalse}
              /\ (output.eligibility_check.is_eligible = PyTrue)
                   <=> (SumOfHundredths(output.turnover_last_3_years) >= 1000000 * 100)
        /\ (output.document_type = PQ_FORM /\ Len(output.turnover_last_3_years) = 0) =>
              /\ built.eligibility_check.is_eligible = None
              /\ output.eligibility_check.is_eligible = NullStr
              /\ output.eligibility_check.reason = EmptyStr
        /\ output.document_type # PQ_FORM => DOMAIN output.eligibility_check = {}

====
